---- MODULE Spec2Model ----
(***************************************************************************)
(* Model of the useAnalytics hook                                          *)
(* (packages/analytics-nextjs/src/hooks/useAnalytics.ts).                  *)
(*                                                                         *)
(* One hook instance is modelled for as long as it stays mounted.  The     *)
(* state is the hook's React state (the useQueue queue, the useLocalStorage*)
(* deferred identity), the ambient context it reads (analytics client,     *)
(* consent, isEnabled, tracking policy, story), the part of the external   *)
(* client the hook reads and writes (its user id, which a client may bring *)
(* along from its own storage, and the latest invocation it received), and *)
(* observation variables (deliveries, issued, runs, cbRuns) that count     *)
(* what happened so that the properties can be stated.                     *)
(*                                                                         *)
(* Every state change re-renders the hook, and both effects are keyed on   *)
(* values that change with every render, so an effect may run after any    *)
(* step: DrainTick and ConsentTick are enabled in every state and read the *)
(* current state.                                                          *)
(***************************************************************************)
EXTENDS Integers, Sequences, FiniteSets, TLC

\* ------------------------------------------------------------------ bounds
MaxCalls == 2   \* tracking calls issued (by the UI or by the replay)
MaxInst  == 2   \* analytics client instances seen by the hook
MaxRuns  == 2   \* the per-call run and delivery counters saturate here

\* ------------------------------------------------------------ value spaces
NULL == "null"
EmptyObj == [k \in {} |-> ""]
None == EmptyObj          \* undefined (no deferred identity stored)

Ops  == {"identify", "alias", "page", "track"}
Caps == Ops \cup {"user"}

DEFAULT == "default"
CONSENT_TO_IDENTIFY == "consent-to-identify"
TrackingPolicy == {DEFAULT, CONSENT_TO_IDENTIFY}

newsroomUuid == "n1"
\* The tracking policy and the story of the page the hook is mounted in.
Ambient == {<<DEFAULT, "s1">>, <<CONSENT_TO_IDENTIFY, "">>}
LIBRARY == "@prezly/analytics-next@version"
USER_AGENT == "navigator.userAgent"

NoClient == [inst |-> 0, caps |-> {}, broken |-> {}]

\* A client instance: the capabilities it has, the ones that throw when they
\* are invoked, and the user id the client finds in its own storage when it is
\* first loaded (NULL for a new visitor).
ClientKinds ==
    {[caps |-> Caps, broken |-> {}, stored |-> NULL],
     [caps |-> Caps, broken |-> {"track"}, stored |-> "u0"],
     [caps |-> {"page"}, broken |-> {}, stored |-> NULL]}

\* Inputs of the tracking calls.
Plan == [plan |-> "pro"]
Forged == [plan |-> "pro", prezly |-> [newsroom |-> "forged"]]
IdentifyInputs == {<<"u1", Plan, TRUE>>, <<"u2", Forged, FALSE>>}
TrackInputs == {<<"click", Plan, TRUE>>}
PageInputs == {<<"home", EmptyObj, FALSE>>}
AliasInputs == {<<"u2", "u1">>}

VARIABLES
    analytics,          \* context: the analytics client, NoClient while not loaded
    consent,            \* context: consent flag
    isEnabled,          \* context: master enable flag
    trackingPolicy,     \* context: tracking policy
    storyUuid,          \* context: story uuid, "" when there is no story
    queue,              \* useQueue state: the pending calls, oldest first
    deferredIdentity,   \* useLocalStorage state: None or the deferred identity
    uid,                \* the client's user id (what user().id() returns)
    received,           \* the latest invocation a client received, None before
    deliveries,         \* deliveries[n]: how often a client method was entered for call n
    issued,             \* number of tracking calls issued so far
    runs,               \* runs[n]: how often the queued closure of call n ran
    cbRuns              \* callbacks invoked synchronously by identify

vars == <<analytics, consent, isEnabled, trackingPolicy, storyUuid, queue,
          deferredIdentity, uid, received, deliveries, issued, runs, cbRuns>>

context == <<analytics, consent, isEnabled, trackingPolicy, storyUuid>>

Min(a, b) == IF a < b THEN a ELSE b

\* --------------------------------------------------------------- useQueue
addToQueue(q, f) == Append(q, f)
removeFromQueue(q) == IF q = <<>> THEN q ELSE Tail(q)
\* Faulty variant: the queue hands out its newest entry.
newestInQueue(q) == q[Len(q)]

firstInQueue(q) == Head(q)

\* ----------------------------------------------------------- buildOptions
\* c is the consent value the useCallback closure was created with.
buildOptions(c) ==
    IF c THEN [library |-> LIBRARY, userAgent |-> USER_AGENT]
         ELSE [library |-> LIBRARY]

\* ------------------------------------------------------- injectPrezlyMeta
PrezlyMeta ==
    [k \in {"newsroom"}
        \cup (IF storyUuid # "" THEN {"story"} ELSE {})
        \cup (IF trackingPolicy # DEFAULT THEN {"tracking_policy"} ELSE {})
     |-> CASE k = "newsroom" -> newsroomUuid
           [] k = "story" -> storyUuid
           [] k = "tracking_policy" -> trackingPolicy]

\* Faulty variant: the caller's fields are spread after the prezly field.
injectPrezlyMetaCallerWins(traits) ==
    [k \in DOMAIN traits \cup {"prezly"} |->
        IF k \in DOMAIN traits THEN traits[k] ELSE PrezlyMeta]

injectPrezlyMeta(traits) ==
    [k \in DOMAIN traits \cup {"prezly"} |->
        IF k = "prezly" THEN PrezlyMeta ELSE traits[k]]

\* ------------------------------------------------------------------- user
\* Faulty variant: the client's user() is called without checking it exists.
userUnchecked ==
    IF analytics.inst # 0
    THEN [kind |-> "client", id |-> uid]
    ELSE [kind |-> "stub", id |-> NULL]

user ==
    IF analytics.inst # 0 /\ "user" \in analytics.caps
    THEN [kind |-> "client", id |-> uid]
    ELSE [kind |-> "stub", id |-> NULL]

\* ------------------------------------------------------ the queued closure
\* A pending call: the arguments it was built with and the values of the
\* render it was created in (consent through buildOptions, the client).
PendingCall(n, op, userId, name, props, cb) ==
    [id |-> n, op |-> op, userId |-> userId, name |-> name, props |-> props,
     cb |-> cb, consent |-> consent, seen |-> analytics.inst]

\* Faulty variant: the closure uses the client of the render it was created in.
analyticsCaptured(f) ==
    IF f.seen = analytics.inst THEN analytics
    ELSE [inst |-> f.seen, caps |-> IF f.seen = 0 THEN {} ELSE Caps, broken |-> {}]

\* analyticsRef.current as the closure f reads it when it runs.
analyticsRef(f) == analytics

\* Faulty variant: the closure only checks that a client exists.
GuardedClientOnly(f) == analyticsRef(f).inst # 0

\* The closure's guard: the client and the capability exist.
Guarded(f) == analyticsRef(f).inst # 0 /\ f.op \in analyticsRef(f).caps

\* The client method raises.
Throws(f) == Guarded(f) /\ f.op \in analyticsRef(f).broken

\* What the client is handed when the closure f runs.
Invocation(f) ==
    [id |-> f.id, op |-> f.op, userId |-> f.userId, name |-> f.name,
     props |-> f.props, options |-> buildOptions(f.consent), cb |-> f.cb,
     inst |-> analyticsRef(f).inst, seen |-> f.seen, raised |-> Throws(f)]

\* --------------------------------------------------------------- identify
\* Faulty variant: the gate tests consent instead of its absence.
GatedInverted == trackingPolicy = CONSENT_TO_IDENTIFY /\ consent

\* The consent gate of identify.
Gated == trackingPolicy = CONSENT_TO_IDENTIFY /\ ~consent

\* Faulty variant: the gated branch returns without invoking the callback.
identifySilent(n, userId, traits, cb) ==
    LET extendedTraits == injectPrezlyMeta(traits) IN
    IF Gated
    THEN [queue |-> queue,
          deferredIdentity |-> [userId |-> userId, traits |-> extendedTraits],
          cbRuns |-> cbRuns]
    ELSE [queue |-> addToQueue(queue,
              PendingCall(n, "identify", userId, "", extendedTraits, cb)),
          deferredIdentity |-> deferredIdentity,
          cbRuns |-> cbRuns]

\* The state identify(userId, traits, callback) leaves behind.
identify(n, userId, traits, cb) ==
    LET extendedTraits == injectPrezlyMeta(traits) IN
    IF Gated
    THEN [queue |-> queue,
          deferredIdentity |-> [userId |-> userId, traits |-> extendedTraits],
          cbRuns |-> IF cb THEN cbRuns + 1 ELSE cbRuns]
    ELSE [queue |-> addToQueue(queue,
              PendingCall(n, "identify", userId, "", extendedTraits, cb)),
          deferredIdentity |-> deferredIdentity,
          cbRuns |-> cbRuns]

\* ------------------------------------------------------------------- Init
Init ==
    /\ analytics = NoClient
    /\ consent \in BOOLEAN
    /\ isEnabled \in BOOLEAN
    /\ \E a \in Ambient : trackingPolicy = a[1] /\ storyUuid = a[2]
    /\ queue = <<>>
    /\ deferredIdentity = None
    /\ uid = NULL
    /\ received = None
    /\ deliveries = [n \in 1..MaxCalls |-> 0]
    /\ issued = 0
    /\ runs = [n \in 1..MaxCalls |-> 0]
    /\ cbRuns = 0

\* ---------------------------------------------------------------- context
LoadClient(k) ==
    /\ analytics.inst < MaxInst
    /\ analytics' = [inst |-> analytics.inst + 1, caps |-> k.caps, broken |-> k.broken]
    \* the first instance reads the stored user id; later instances share it
    /\ uid' = IF analytics.inst = 0 THEN k.stored ELSE uid
    /\ UNCHANGED <<consent, isEnabled, trackingPolicy, storyUuid, queue,
                   deferredIdentity, received, deliveries, issued, runs, cbRuns>>

SetConsent ==
    /\ consent' = ~consent
    /\ UNCHANGED <<analytics, isEnabled, trackingPolicy, storyUuid, queue,
                   deferredIdentity, uid, received, deliveries, issued, runs, cbRuns>>

SetEnabled ==
    /\ isEnabled' = ~isEnabled
    /\ UNCHANGED <<analytics, consent, trackingPolicy, storyUuid, queue,
                   deferredIdentity, uid, received, deliveries, issued, runs, cbRuns>>

\* ------------------------------------------------- the returned operations
Identify(userId, traits, cb) ==
    /\ issued < MaxCalls
    /\ issued' = issued + 1
    /\ IF ~isEnabled
       THEN UNCHANGED <<queue, deferredIdentity, cbRuns>>
       ELSE LET r == identify(issued + 1, userId, traits, cb) IN
            /\ queue' = r.queue
            /\ deferredIdentity' = r.deferredIdentity
            /\ cbRuns' = r.cbRuns
    /\ UNCHANGED <<context, uid, received, deliveries, runs>>

\* Faulty variant: the disabled hook returns the real operations.
EnqueueWhenDisabled(op, userId, name, props, cb) ==
    /\ issued < MaxCalls
    /\ issued' = issued + 1
    /\ queue' = addToQueue(queue,
           PendingCall(issued + 1, op, userId, name,
               IF op = "alias" THEN props ELSE injectPrezlyMeta(props), cb))
    /\ UNCHANGED <<context, deferredIdentity, uid, received, deliveries, runs, cbRuns>>

\* Faulty variant: alias, page and track are held back by the consent gate.
EnqueueGated(op, userId, name, props, cb) ==
    /\ issued < MaxCalls
    /\ issued' = issued + 1
    /\ IF ~isEnabled \/ Gated
       THEN UNCHANGED queue
       ELSE queue' = addToQueue(queue,
                  PendingCall(issued + 1, op, userId, name,
                      IF op = "alias" THEN props ELSE injectPrezlyMeta(props), cb))
    /\ UNCHANGED <<context, deferredIdentity, uid, received, deliveries, runs, cbRuns>>

\* alias, page and track as the hook returns them: no-ops when disabled.
Enqueue(op, userId, name, props, cb) ==
    /\ issued < MaxCalls
    /\ issued' = issued + 1
    /\ IF ~isEnabled
       THEN UNCHANGED queue
       ELSE queue' = addToQueue(queue,
                  PendingCall(issued + 1, op, userId, name,
                      IF op = "alias" THEN props ELSE injectPrezlyMeta(props), cb))
    /\ UNCHANGED <<context, deferredIdentity, uid, received, deliveries, runs, cbRuns>>

Alias(userId, previousId) == Enqueue("alias", userId, previousId, EmptyObj, FALSE)
Page(name, properties, cb) == Enqueue("page", "", name, properties, cb)
Track(event, properties, cb) == Enqueue("track", "", event, properties, cb)

\* ------------------------------------------------------- the drain effect
DrainTick ==
    IF analytics.inst # 0 /\ queue # <<>>
    THEN LET f == firstInQueue(queue) IN
         /\ runs' = [runs EXCEPT ![f.id] = Min(@ + 1, MaxRuns)]
         /\ received' = IF Guarded(f) THEN Invocation(f) ELSE received
         /\ deliveries' = IF Guarded(f)
                          THEN [deliveries EXCEPT ![f.id] = Min(@ + 1, MaxRuns)]
                          ELSE deliveries
         /\ IF Throws(f)
            THEN \* firstInQueue() raises: removeFromQueue() is not reached
                 UNCHANGED <<queue, uid>>
            ELSE /\ queue' = removeFromQueue(queue)
                 /\ uid' = IF Guarded(f) /\ f.op = "identify" THEN f.userId ELSE uid
         /\ UNCHANGED <<context, deferredIdentity, issued, cbRuns>>
    ELSE UNCHANGED vars

\* ----------------------------------------------------- the consent effect
TraitsOf(d) == IF "traits" \in DOMAIN d THEN d.traits ELSE EmptyObj

\* Faulty variant: the replay forgets removeDeferredIdentity().
ConsentReplayKeeps ==
    /\ consent /\ deferredIdentity # None
    /\ issued < MaxCalls
    /\ issued' = issued + 1
    /\ LET r == identify(issued + 1, deferredIdentity.userId,
                         TraitsOf(deferredIdentity), FALSE) IN
       /\ queue' = r.queue
       /\ cbRuns' = r.cbRuns
    /\ UNCHANGED <<context, deferredIdentity, uid, received, deliveries, runs>>

\* Consent granted and a deferred identity stored: replay it and clear it.
ConsentReplay ==
    /\ consent /\ deferredIdentity # None
    /\ issued < MaxCalls
    /\ issued' = issued + 1
    /\ LET r == identify(issued + 1, deferredIdentity.userId,
                         TraitsOf(deferredIdentity), FALSE) IN
       /\ queue' = r.queue
       /\ cbRuns' = r.cbRuns
    /\ deferredIdentity' = None
    /\ UNCHANGED <<context, uid, received, deliveries, runs>>

ConsentIdle ==
    /\ consent /\ deferredIdentity = None
    /\ UNCHANGED vars

\* Faulty variant: the no-consent branch forgets user().id(null).
ConsentEraseKeepsId ==
    /\ ~consent
    /\ LET id == user.id IN
       /\ deferredIdentity' = IF id # NULL THEN [userId |-> id] ELSE deferredIdentity
    /\ UNCHANGED <<context, uid, queue, received, deliveries, issued, runs, cbRuns>>

\* Faulty variant: the capture branch runs whatever consent is.
ConsentEraseAnyConsent ==
    /\ LET id == user.id IN
       /\ deferredIdentity' = IF id # NULL THEN [userId |-> id] ELSE deferredIdentity
    /\ uid' = IF user.kind = "client" THEN NULL ELSE uid
    /\ UNCHANGED <<context, queue, received, deliveries, issued, runs, cbRuns>>

\* No consent: keep the client's user id for later and erase it on the client.
ConsentErase ==
    /\ ~consent
    /\ LET id == user.id IN
       /\ deferredIdentity' = IF id # NULL THEN [userId |-> id] ELSE deferredIdentity
    /\ uid' = IF user.kind = "client" THEN NULL ELSE uid
    /\ UNCHANGED <<context, queue, received, deliveries, issued, runs, cbRuns>>

ConsentTick == ConsentReplay \/ ConsentIdle \/ ConsentErase

\* ------------------------------------------------------------------- Next
Next ==
    \/ \E k \in ClientKinds : LoadClient(k)
    \/ SetConsent
    \/ SetEnabled
    \/ \E i \in IdentifyInputs : Identify(i[1], i[2], i[3])
    \/ \E i \in AliasInputs : Alias(i[1], i[2])
    \/ \E i \in PageInputs : Page(i[1], i[2], i[3])
    \/ \E i \in TrackInputs : Track(i[1], i[2], i[3])
    \/ DrainTick
    \/ ConsentTick

Spec == Init /\ [][Next]_vars

\* The drain effect is re-run after every render, and every tick that changes
\* the queue causes a render: a tick that can change the state is taken.
FairSpec == Spec /\ WF_vars(DrainTick)

TypeOK ==
    /\ issued \in 0..MaxCalls
    /\ Len(queue) <= MaxCalls
    /\ \A n \in 1..MaxCalls : deliveries[n] \in 0..MaxRuns /\ deliveries[n] <= runs[n]
    /\ cbRuns \in 0..MaxCalls
    /\ \A n \in 1..MaxCalls : runs[n] \in 0..MaxRuns

\* ------------------------------------------------------------ properties
Ids(s) == {s[i].id : i \in DOMAIN s}
Last(s) == s[Len(s)]

\* A step of one of the returned tracking operations.
ApiCall ==
    \/ \E i \in IdentifyInputs : Identify(i[1], i[2], i[3])
    \/ \E i \in AliasInputs : Alias(i[1], i[2])
    \/ \E i \in PageInputs : Page(i[1], i[2], i[3])
    \/ \E i \in TrackInputs : Track(i[1], i[2], i[3])

\* A drain tick that finds a client and a pending call.
Draining == DrainTick /\ analytics.inst # 0 /\ queue # <<>>

\* A step in which a client method is entered.
Delivery == deliveries' # deliveries \/ received' # received

\* C1: a call that was enqueued while no client was present reaches the
\* client exactly once, and such calls reach it in the order they were issued
\* (by increasing serial number).
C1_EarlyCallsOnceInOrder ==
    [][(Delivery /\ received'.seen = 0) =>
         /\ deliveries'[received'.id] = 1
         /\ (received # None /\ received.seen = 0) => received.id < received'.id]_vars

\* C2: an identify made under CONSENT_TO_IDENTIFY without consent leaves the
\* queue and the client alone and stores {userId, enriched traits} of that call
\* in the deferred-identity slot, replacing what the slot held.
C2_GatedIdentifyIsDeferred ==
    [][\A i \in IdentifyInputs :
         (/\ Identify(i[1], i[2], i[3])
          /\ isEnabled /\ trackingPolicy = CONSENT_TO_IDENTIFY /\ ~consent)
         => /\ queue' = queue
            /\ received' = received /\ deliveries' = deliveries
            /\ runs' = runs /\ uid' = uid
            /\ deferredIdentity' =
                 [userId |-> i[1], traits |-> injectPrezlyMeta(i[2])]]_vars

C2_Witness ==
    /\ ~consent /\ isEnabled /\ trackingPolicy = CONSENT_TO_IDENTIFY
    /\ issued = 2 /\ cbRuns = 1
    /\ queue = <<>> /\ received = None
    /\ deferredIdentity = [userId |-> "u2", traits |-> injectPrezlyMeta(Forged)]

\* C3: a consent reaction that runs with consent granted and a deferred
\* identity stored calls identify once with the stored userId and traits (one
\* identify call is appended to the queue) and empties the slot; a reaction
\* that runs with consent granted and an empty slot enqueues nothing.
C3_ReplayOnceThenEmpty ==
    [][(ConsentTick /\ consent) =>
         /\ deferredIdentity' = None
         /\ IF deferredIdentity # None
            THEN /\ Len(queue') = Len(queue) + 1
                 /\ SubSeq(queue', 1, Len(queue)) = queue
                 /\ Last(queue').op = "identify"
                 /\ Last(queue').userId = deferredIdentity.userId
                 /\ Last(queue').props = injectPrezlyMeta(TraitsOf(deferredIdentity))
                 /\ \A k \in DOMAIN TraitsOf(deferredIdentity) :
                        Last(queue').props[k] = TraitsOf(deferredIdentity)[k]
            ELSE queue' = queue]_vars

C3_Witness ==
    /\ consent /\ trackingPolicy = CONSENT_TO_IDENTIFY
    /\ deferredIdentity = None
    /\ issued = 2 /\ cbRuns = 1
    /\ Len(queue) = 1
    /\ queue[1].id = 2 /\ queue[1].op = "identify" /\ queue[1].userId = "u1"
    /\ queue[1].props = injectPrezlyMeta(Plan) /\ ~queue[1].cb

\* C4: a consent reaction that runs without consent, when the client reports
\* a user id, stores that id (and no traits) as the deferred identity and sets
\* the client's user id to null; when the client reports no id (or there is no
\* client) the deferred-identity slot is left as it is.
C4_RevokeCapturesClientId ==
    [][(ConsentTick /\ ~consent) =>
         IF analytics.inst # 0 /\ "user" \in analytics.caps /\ uid # NULL
         THEN /\ deferredIdentity' # None
              /\ deferredIdentity'.userId = uid
              /\ TraitsOf(deferredIdentity') = EmptyObj
              /\ uid' = NULL
         ELSE deferredIdentity' = deferredIdentity]_vars

C4_Witness ==
    /\ ~consent
    /\ analytics.inst # 0 /\ "user" \in analytics.caps
    /\ deferredIdentity = [userId |-> "u1"]
    /\ uid = NULL
    /\ received # None /\ received.op = "identify" /\ received.userId = "u1"

\* C5: the options of every invocation the client receives carry the library
\* stamp, and carry userAgent exactly when consent is true at the moment the
\* invocation is delivered.
C5_UserAgentFollowsConsentAtDelivery ==
    [][Delivery =>
         /\ received'.options.library = LIBRARY
         /\ ("userAgent" \in DOMAIN received'.options) <=> consent]_vars

\* C6: with the enabled flag off, track, page, alias and identify change
\* neither the queue, nor the deferred identity, nor the client, and invoke
\* nothing; user() is still the client's user object when the client has one.
C6_DisabledCallsDoNothing ==
    [][/\ (ApiCall /\ ~isEnabled) =>
            UNCHANGED <<queue, deferredIdentity, analytics, uid, received,
                        deliveries, runs, cbRuns>>
       /\ (analytics.inst # 0 /\ "user" \in analytics.caps) =>
            (user.kind = "client" /\ user.id = uid)]_vars

C6_Witness ==
    /\ ~isEnabled /\ ~consent /\ trackingPolicy = CONSENT_TO_IDENTIFY
    /\ analytics.inst # 0
    /\ issued = 2
    /\ queue = <<>> /\ received = None /\ deferredIdentity = None
    /\ cbRuns = 0 /\ \A n \in 1..MaxCalls : runs[n] = 0

\* C7: whatever client was current when a call was enqueued, the call is
\* handed to the instance that is current at the drain tick that runs it: every
\* invocation is received by the current instance, and a tick whose current
\* client has the capability does hand it the call.
C7_DeliveredToCurrentClient ==
    [][/\ Delivery => (analytics.inst # 0 /\ received'.inst = analytics.inst)
       /\ (Draining /\ firstInQueue(queue).op \in analytics.caps) =>
            /\ received' # None
            /\ received'.id = firstInQueue(queue).id
            /\ received'.inst = analytics.inst
            /\ deliveries'[firstInQueue(queue).id] =
                 Min(deliveries[firstInQueue(queue).id] + 1, MaxRuns)]_vars

C7_Witness ==
    /\ received # None /\ received.seen = 1 /\ received.inst = 2
    /\ \E n \in 1..MaxCalls : n # received.id /\ deliveries[n] = 1

\* C8: when the oldest queued call raises during a drain tick, its entry is
\* still removed from the queue.
C8_RaisingEntryIsRemoved ==
    [][(Draining /\ firstInQueue(queue).op \in analytics.caps
                 /\ firstInQueue(queue).op \in analytics.broken)
         => queue' = Tail(queue)]_vars

\* C9: a queued call drained while the current client lacks its capability
\* is dropped silently (removed, nothing invoked, nothing changed on the
\* client), and a call that has run and left the queue never runs again.
C9_MissingCapabilityIsDropped ==
    [][/\ (Draining /\ firstInQueue(queue).op \notin analytics.caps) =>
            /\ queue' = Tail(queue)
            /\ received' = received /\ deliveries' = deliveries /\ uid' = uid
            /\ runs'[firstInQueue(queue).id] =
                 Min(runs[firstInQueue(queue).id] + 1, MaxRuns)
       /\ \A n \in 1..MaxCalls :
            (runs[n] >= 1 /\ n \notin Ids(queue)) =>
                /\ runs'[n] = runs[n] /\ deliveries'[n] = deliveries[n]
                /\ n \notin Ids(queue')]_vars

C9_Witness ==
    \E n \in 1..MaxCalls :
        /\ runs[n] = 1 /\ deliveries[n] = 0
        /\ n \notin Ids(queue)
        /\ analytics.inst = 2 /\ analytics.caps = Caps

\* C10: with a client present and drain ticks occurring, every enqueued call
\* eventually leaves the queue.
C10_EveryCallIsEventuallyDrained ==
    \A n \in 1..MaxCalls :
        (analytics.inst # 0 /\ n \in Ids(queue)) ~> (n \notin Ids(queue))

\* C11: one drain tick runs at most one queued call and removes at most one,
\* in both cases the oldest, and only while a client is known; a tick with no
\* client or with an empty queue changes nothing.  Stated on the effects: a
\* step in which a queued closure runs or the queue shrinks has a client and a
\* non-empty queue, touches the counters of the head entry only (by one run),
\* and leaves the queue as it was or without its head.
C11_OneOldestCallPerTick ==
    [][/\ (DrainTick \/ runs' # runs \/ deliveries' # deliveries
                     \/ Len(queue') < Len(queue)) =>
            /\ analytics.inst # 0 /\ queue # <<>>
            /\ queue' \in {queue, Tail(queue)}
            /\ \A n \in 1..MaxCalls :
                 IF n = Head(queue).id
                 THEN /\ runs'[n] = Min(runs[n] + 1, MaxRuns)
                      /\ deliveries'[n] \in {deliveries[n], Min(deliveries[n] + 1, MaxRuns)}
                 ELSE runs'[n] = runs[n] /\ deliveries'[n] = deliveries[n]
            /\ received' # received => received'.id = Head(queue).id
       /\ (analytics.inst = 0 \/ queue = <<>>) =>
            (UNCHANGED <<runs, deliveries, received>> /\ Len(queue') >= Len(queue))]_vars

C11_Witness ==
    /\ Len(queue) = 1 /\ queue[1].id = 2
    /\ runs[1] = 1 /\ deliveries[1] = 1
    /\ runs[2] = 0 /\ deliveries[2] = 0
    /\ received # None /\ received.id = 1

\* C12: an identify suppressed by the consent gate invokes its callback once,
\* within that identify step (and invokes nothing when no callback was passed);
\* no other step invokes a callback synchronously, and the identify call the
\* consent reaction replays carries no callback, so the client that receives
\* the replayed call has none to invoke.
C12_GatedCallbackOnceNotOnReplay ==
    [][/\ \A i \in IdentifyInputs :
            (/\ Identify(i[1], i[2], i[3])
             /\ isEnabled /\ trackingPolicy = CONSENT_TO_IDENTIFY /\ ~consent)
            => cbRuns' = cbRuns + (IF i[3] THEN 1 ELSE 0)
       /\ cbRuns' # cbRuns =>
            /\ cbRuns' = cbRuns + 1
            /\ isEnabled /\ trackingPolicy = CONSENT_TO_IDENTIFY /\ ~consent
            /\ \E i \in IdentifyInputs : i[3] /\ Identify(i[1], i[2], i[3])
       /\ ConsentTick =>
            /\ cbRuns' = cbRuns
            /\ Len(queue') > Len(queue) => ~queue'[Len(queue')].cb
       /\ (Draining /\ received' # received) =>
            received'.cb = Head(queue).cb]_vars

C12_Witness ==
    /\ cbRuns = 1 /\ issued = 2 /\ consent
    /\ deferredIdentity = None /\ queue = <<>>
    /\ received # None /\ received.id = 2 /\ received.op = "identify"
    /\ received.userId = "u1" /\ received.props = injectPrezlyMeta(Plan)
    /\ ~received.cb

\* C13: user() always returns an object: the client's user object (whose id()
\* is the client's user id) when a client with the user capability is present,
\* and otherwise a stub whose id() is null; the calls the consent reaction
\* makes on the stub, id() and id(null), change no state.
C13_UserIsNeverNull ==
    [][IF analytics.inst # 0 /\ "user" \in analytics.caps
       THEN user = [kind |-> "client", id |-> uid]
       ELSE /\ user = [kind |-> "stub", id |-> NULL]
            /\ (ConsentTick /\ ~consent) => UNCHANGED vars]_vars

C13_Witness ==
    /\ analytics.inst = 2 /\ "user" \notin analytics.caps
    /\ ~consent /\ uid = "u0"
    /\ deferredIdentity = None
    /\ user = [kind |-> "stub", id |-> NULL]

\* C14: with the enabled flag on, every alias, page and track call appends
\* exactly one entry (its own) to the pending-call queue and leaves the
\* deferred-identity slot alone, whatever consent and the tracking policy are.
C14_OnlyIdentifyIsGated ==
    [][\A op \in {"alias", "page", "track"} :
         (/\ isEnabled
          /\ \/ op = "alias" /\ \E i \in AliasInputs : Alias(i[1], i[2])
             \/ op = "page" /\ \E i \in PageInputs : Page(i[1], i[2], i[3])
             \/ op = "track" /\ \E i \in TrackInputs : Track(i[1], i[2], i[3]))
         => /\ Len(queue') = Len(queue) + 1
            /\ SubSeq(queue', 1, Len(queue)) = queue
            /\ queue'[Len(queue')].op = op
            /\ queue'[Len(queue')].id = issued + 1
            /\ deferredIdentity' = deferredIdentity]_vars

C14_Witness ==
    /\ isEnabled /\ ~consent /\ trackingPolicy = CONSENT_TO_IDENTIFY
    /\ deferredIdentity = None
    /\ Len(queue) = 2
    /\ queue[1].op = "alias" /\ ~queue[1].consent
    /\ queue[2].op = "track" /\ ~queue[2].consent

\* The prezly field of payload p is the one the ambient context dictates.
AmbientPrezly(p) ==
    /\ "prezly" \in DOMAIN p
    /\ DOMAIN p.prezly =
         {"newsroom"} \cup (IF storyUuid # "" THEN {"story"} ELSE {})
                      \cup (IF trackingPolicy # DEFAULT THEN {"tracking_policy"} ELSE {})
    /\ p.prezly.newsroom = newsroomUuid
    /\ "story" \in DOMAIN p.prezly => p.prezly.story = storyUuid
    /\ "tracking_policy" \in DOMAIN p.prezly => p.prezly.tracking_policy = trackingPolicy

\* Payload p is the caller's object t with its prezly field replaced.
KeepsCallerFields(p, t) ==
    /\ DOMAIN p = DOMAIN t \cup {"prezly"}
    /\ \A k \in DOMAIN t \ {"prezly"} : p[k] = t[k]

\* The payload an identify, page or track step has just produced.
NewPayload ==
    IF Len(queue') > Len(queue) THEN queue'[Len(queue')].props
    ELSE deferredIdentity'.traits

\* Every payload held in the queue, in the slot or by the client.
PayloadsFromAmbient ==
    /\ \A j \in DOMAIN queue :
         queue[j].op # "alias" => AmbientPrezly(queue[j].props)
    /\ (received # None /\ received.op # "alias") => AmbientPrezly(received.props)
    /\ (deferredIdentity # None /\ "traits" \in DOMAIN deferredIdentity) =>
         AmbientPrezly(deferredIdentity.traits)

\* Every step that builds or hands over a payload.
PayloadKeepsCaller ==
    /\ \A i \in IdentifyInputs :
         (isEnabled /\ Identify(i[1], i[2], i[3])) =>
             KeepsCallerFields(NewPayload, i[2])
    /\ \A i \in PageInputs :
         (isEnabled /\ Page(i[1], i[2], i[3])) =>
             KeepsCallerFields(NewPayload, i[2])
    /\ \A i \in TrackInputs :
         (isEnabled /\ Track(i[1], i[2], i[3])) =>
             KeepsCallerFields(NewPayload, i[2])
    /\ (ConsentTick /\ Len(queue') > Len(queue)) =>
         KeepsCallerFields(NewPayload, TraitsOf(deferredIdentity))
    /\ (Draining /\ received' # received) =>
         received'.props = Head(queue).props

\* C15: every identify traits object and page/track properties object in the
\* queue, in the deferred-identity slot or received by the client has a prezly
\* field made of the ambient context only (newsroom always, story iff a story
\* is set, tracking_policy iff the policy is not DEFAULT), also when the caller
\* supplied a prezly field of its own; the caller's other fields are kept as
\* they were, and the client receives the payload that was queued.
C15_PrezlyFromAmbientOnly ==
    []PayloadsFromAmbient /\ [][PayloadKeepsCaller]_vars

C15_Witness ==
    /\ trackingPolicy = CONSENT_TO_IDENTIFY /\ storyUuid = ""
    /\ received # None /\ received.op = "identify" /\ received.userId = "u2"
    /\ received.props =
         [plan |-> "pro",
          prezly |-> [newsroom |-> newsroomUuid, tracking_policy |-> CONSENT_TO_IDENTIFY]]
    /\ deferredIdentity = [userId |-> "u1", traits |-> injectPrezlyMeta(Plan)]

\* C16: under CONSENT_TO_IDENTIFY the client receives no identify invocation
\* while consent is false, also not one that was enqueued while consent was
\* true.
C16_NoIdentifyDeliveredWithoutConsent ==
    [][(/\ Delivery
        /\ received'.op = "identify"
        /\ trackingPolicy = CONSENT_TO_IDENTIFY) => consent]_vars

\* C17: while the enabled flag is false no step hands the client an identify,
\* alias, page or track invocation (neither a returned operation, nor a drain
\* tick, nor the consent reaction), and no step writes or clears the
\* deferred-identity slot.
C17_DisabledHookIsSilent ==
    [][~isEnabled =>
         /\ ~Delivery
         /\ deferredIdentity' = deferredIdentity]_vars

\* C18: a deferred identity stored by a gated identify call (userId and
\* traits) is replaced, while consent is false, only by a later gated identify
\* call: the no-consent branch of the consent reaction does not overwrite it
\* with the client's user id and does not drop its traits.
C18_DeferredIdentityKeptUntilReplay ==
    [][(/\ ~consent
        /\ deferredIdentity # None /\ "traits" \in DOMAIN deferredIdentity
        /\ deferredIdentity' # deferredIdentity)
         => /\ isEnabled /\ trackingPolicy = CONSENT_TO_IDENTIFY
            /\ \E i \in IdentifyInputs : Identify(i[1], i[2], i[3])]_vars

\* A queued or received identify call that restores a captured user id: the
\* consent reaction replays {userId: id} with no traits and no callback.
Restoring(f) ==
    f.op = "identify" /\ ~f.cb /\ DOMAIN f.props = {"prezly"}

\* Consent revoked: the id the client reports is captured and erased.
RevokeCaptures ==
    (ConsentTick /\ ~consent /\ user.kind = "client" /\ uid # NULL) =>
        (deferredIdentity' = [userId |-> uid] /\ uid' = NULL)

\* Consent granted again: identify(id) is issued once and the slot is emptied.
GrantReplays ==
    (ConsentTick /\ consent /\ deferredIdentity # None
                 /\ "traits" \notin DOMAIN deferredIdentity) =>
        /\ deferredIdentity' = None
        /\ Len(queue') = Len(queue) + 1
        /\ Restoring(queue'[Len(queue')])
        /\ queue'[Len(queue')].userId = deferredIdentity.userId

\* C19: revoking and re-granting consent restores the identity.  The id X the
\* client reports when consent goes off is captured; when consent is on again
\* identify(X) is issued once and the slot ends empty; and with a client
\* present that has identify, that call is eventually received, exactly once.
C19_RevokeThenGrantRestoresIdentity ==
    /\ [][RevokeCaptures /\ GrantReplays]_vars
    /\ \A n \in 1..MaxCalls :
         (\E j \in DOMAIN queue :
              /\ queue[j].id = n /\ Restoring(queue[j])
              /\ analytics.inst # 0 /\ "identify" \in analytics.caps)
         ~> \/ deliveries[n] = 1 /\ n \notin Ids(queue)
            \/ "identify" \notin analytics.caps

\* C20: the deferred-identity slot is written only in steps taken with
\* consent false and cleared only in steps taken with consent true; a consent
\* reaction that runs with consent true leaves the slot empty.
C20_SlotWrittenWithoutConsentClearedWithConsent ==
    [][/\ (deferredIdentity' # deferredIdentity /\ deferredIdentity' # None) => ~consent
       /\ (deferredIdentity # None /\ deferredIdentity' = None) => consent
       /\ (ConsentTick /\ consent) => deferredIdentity' = None]_vars

C20_Witness ==
    /\ consent /\ deferredIdentity = None /\ uid = NULL
    /\ \E j \in DOMAIN queue : Restoring(queue[j]) /\ queue[j].userId = "u0"

====
